---- MODULE Spec2Model ----
(***************************************************************************)
(* A model of the ws4sqlite Go client (proofrock/ws4sqlite-client-go).     *)
(*                                                                         *)
(* This part covers the RequestBuilder: the builder's three fields         *)
(* (err, list, temp), one operator per builder method computed as the      *)
(* code computes it, and one action per method call.  A nil pointer        *)
(* is the empty sequence <<>> and a non-nil pointer to v is <<v>>; a nil   *)
(* map is <<>> and a non-nil map m is <<m>>; a nil slice is <<>>.          *)
(* Dereferencing the nil rb.temp is a Go run-time panic: the call does not *)
(* return and the call sequence ends (panicked).                           *)
(***************************************************************************)
EXTENDS Integers, Sequences, FiniteSets, TLC

\* ------------------------------------------------------------------------
\* Bounds of the model
\* ------------------------------------------------------------------------

\* builder calls made on one RequestBuilder (Build() included)
MaxCalls == 5

\* ------------------------------------------------------------------------
\* Inputs
\* ------------------------------------------------------------------------

\* SQL texts passed to AddQuery/AddStatement; the empty string is a Go string
Texts == {"", "SELECT"}

\* non-nil maps passed to WithValues (name -> value pairs); {} is the empty
\* non-nil map
Maps == { {}, {<<"id", 1>>} }

\* the argument of WithValues: a nil map or a non-nil one
ValuesArgs == {<<>>} \cup { <<m>> : m \in Maps }

\* variadic fields lists passed to the encoder/decoder methods
FieldsArgs == { <<>>, <<"VAL">> }

\* compression levels passed to WithEncoderAndCompression
Levels == {0, 1, 19, 20}

\* the password passed to the encoder/decoder methods
Passwords == {"pw"}

\* ------------------------------------------------------------------------
\* Data: the request types
\* ------------------------------------------------------------------------

\* requestItemCrypto{Password, Fields, CompressionLevel}
requestItemCrypto(password, fields, compressionLevel) ==
    [Password |-> password, Fields |-> fields, CompressionLevel |-> compressionLevel]

\* &requestItem{} : every field at its Go zero value
requestItem ==
    [Query |-> "", Statement |-> "", NoFail |-> FALSE, Values |-> <<>>,
     ValuesBatch |-> <<>>, Encoder |-> <<>>, Decoder |-> <<>>]

\* request{Credentials, Transaction}
request(credentials, transaction) ==
    [Credentials |-> credentials, Transaction |-> transaction]

\* Request{req}
Request(req) == [req |-> req]

VARIABLES
    err,        \* rb.err: the latched error message, "" when none
    list,       \* rb.list: request{Credentials, Transaction}
    temp,       \* rb.temp: <<>> (nil) or <<item>>, the open item
    panicked,   \* a builder call dereferenced the nil rb.temp
    ret,        \* what the last Build() returned: [req, err]
    op,         \* the last builder call and its arguments
    calls,      \* history: the AddQuery/AddStatement calls made, in order
    tempCall,   \* history: <<>> or <<call>>, the call that opened rb.temp
    listCalls,  \* history: for each item of rb.list.Transaction, its call
    retCalls,   \* history: for each item of the returned Request, its call
    firstErr,   \* history: the error of the first failing call, "" if none
    nilSeen,    \* history: WithValues(nil) was called
    builds,     \* history: number of successful Build() calls
    ncalls,     \* history: number of builder calls made
    emptyFields, \* history: an encoder/decoder method got an empty fields list
    client,     \* <<>> or <<c>>: the Client of the current or last Send
    sreq,       \* req.req of the *Request passed to Send (shared by calls)
    pc,         \* "idle", "posted" (the POST is in flight) or "returned"
    post,       \* <<>> or <<p>>: the HTTP POST the call issued
    resp,       \* <<>> or <<r>>: the HTTP response the call received
    out,        \* what the last Send returned: [res, code, err]
    reqBefore,  \* history: sreq when the current or last Send was called
    nsends,     \* history: number of Send calls made
    nposts,     \* history: client.Do invocations of the current or last Send
    creq,       \* req.req of the *Request two concurrent Send calls share
    cclient,    \* for each concurrent call, its Client
    cpc,        \* for each concurrent call: "called", "attached", "marshalled"
    cbody,      \* for each concurrent call, <<>> or <<json>>: its outgoing body
    cwriter,    \* history: the call that last wrote creq.Credentials, 0 if none
    cread,      \* history: for each call, the writer of the Credentials it read
    cb,         \* the ClientBuilder: [url, authMode, user, password]
    clis,       \* the Clients returned by Build() so far, in order
    cret,       \* what the last ClientBuilder Build() returned: [client, err]
    cop,        \* the last ClientBuilder or Client call: [name, target]
    nccalls,    \* history: number of ClientBuilder and Client calls made
    mrb,        \* a RequestBuilder whose slices are [array, len, cap] headers
    arrays,     \* the backing arrays of []requestItem slices allocated so far
    batches,    \* the backing arrays of ValuesBatch slices allocated so far
    mrets,      \* the Requests this builder's Build() calls returned, in order
    mop,        \* the name of the last call on this builder
    nmcalls     \* history: number of calls made on this builder

vars == <<err, list, temp, panicked, ret, op, calls, tempCall, listCalls,
          retCalls, firstErr, nilSeen, builds, ncalls, emptyFields,
          client, sreq, pc, post, resp, out, reqBefore, nsends, nposts,
          creq, cclient, cpc, cbody, cwriter, cread,
          cb, clis, cret, cop, nccalls,
          mrb, arrays, batches, mrets, mop, nmcalls>>

\* the variables of the RequestBuilder seen with its slices' backing arrays
memVars == <<mrb, arrays, batches, mrets, mop, nmcalls>>

\* the variables of the ClientBuilder and of the Clients it built
clientVars == <<cb, clis, cret, cop, nccalls>>

\* the variables of two concurrent Send calls
concVars == <<creq, cclient, cpc, cbody, cwriter, cread>>

\* the variables of a Send call
sendVars == <<client, sreq, pc, post, resp, out, reqBefore, nsends, nposts>>

\* the variables of the RequestBuilder
builderVars == <<err, list, temp, panicked, ret, op, calls, tempCall, listCalls,
                 retCalls, firstErr, nilSeen, builds, ncalls, emptyFields>>

\* the builder as one value
RB == [err |-> err, list |-> list, temp |-> temp, panic |-> FALSE]

\* a nil pointer dereference inside a builder method
Panic(rb) == [rb EXCEPT !.panic = TRUE]

\* ------------------------------------------------------------------------
\* RequestBuilder methods.  Each operator takes the builder and
\* the call's arguments and yields the builder after the call; panic = TRUE
\* when the call dereferenced the nil rb.temp.
\* ------------------------------------------------------------------------

\* NewRequestBuilder(): err "", an empty non-nil transaction, temp nil
NewRequestBuilder ==
    [err |-> "", list |-> request(<<>>, <<>>), temp |-> <<>>, panic |-> FALSE]

AddQuery_NoLatchCheck(rb, query) ==
    LET flushed == IF rb.temp # <<>>
                   THEN [rb EXCEPT !.list.Transaction = Append(@, rb.temp[1])]
                   ELSE rb
    IN  [flushed EXCEPT !.temp = << [requestItem EXCEPT !.Query = query] >>]

\* func (rb *RequestBuilder) AddQuery(query string)
AddQuery(rb, query) ==
    IF rb.err # "" THEN rb
    ELSE LET flushed == IF rb.temp # <<>>
                        THEN [rb EXCEPT !.list.Transaction = Append(@, rb.temp[1])]
                        ELSE rb
         IN  [flushed EXCEPT !.temp = << [requestItem EXCEPT !.Query = query] >>]

AddStatement_NoFlush(rb, statement) ==
    IF rb.err # "" THEN rb
    ELSE [rb EXCEPT !.temp = << [requestItem EXCEPT !.Statement = statement] >>]

\* func (rb *RequestBuilder) AddStatement(statement string)
AddStatement(rb, statement) ==
    IF rb.err # "" THEN rb
    ELSE LET flushed == IF rb.temp # <<>>
                        THEN [rb EXCEPT !.list.Transaction = Append(@, rb.temp[1])]
                        ELSE rb
         IN  [flushed EXCEPT !.temp = << [requestItem EXCEPT !.Statement = statement] >>]

WithNoFail_StatementsOnly(rb) ==
    IF rb.err # "" THEN rb
    ELSE IF rb.temp = <<>> THEN Panic(rb)
    ELSE IF rb.temp[1].Statement = "" THEN rb
    ELSE [rb EXCEPT !.temp[1].NoFail = TRUE]

\* func (rb *RequestBuilder) WithNoFail()
WithNoFail(rb) ==
    IF rb.err # "" THEN rb
    ELSE IF rb.temp = <<>> THEN Panic(rb)
    ELSE [rb EXCEPT !.temp[1].NoFail = TRUE]

WithValues_NoNilCheck(rb, values) ==
    IF rb.err # "" THEN rb
    ELSE IF rb.temp = <<>> THEN Panic(rb)
    ELSE IF rb.temp[1].Query # ""
            /\ (rb.temp[1].Values # <<>> \/ rb.temp[1].ValuesBatch # <<>>)
         THEN [rb EXCEPT !.err = "cannot specify a batch for a query"]
    ELSE IF rb.temp[1].ValuesBatch # <<>>
         THEN [rb EXCEPT !.temp[1].ValuesBatch = @ \o values]
    ELSE IF rb.temp[1].Values # <<>>
         THEN [rb EXCEPT !.temp[1].ValuesBatch = rb.temp[1].Values \o values,
                         !.temp[1].Values = <<>>]
    ELSE [rb EXCEPT !.temp[1].Values = values]

WithValues_Prepend(rb, values) ==
    IF rb.err # "" THEN rb
    ELSE IF values = <<>> THEN [rb EXCEPT !.err = "cannot specify a nil argument"]
    ELSE IF rb.temp = <<>> THEN Panic(rb)
    ELSE IF rb.temp[1].Query # ""
            /\ (rb.temp[1].Values # <<>> \/ rb.temp[1].ValuesBatch # <<>>)
         THEN [rb EXCEPT !.err = "cannot specify a batch for a query"]
    ELSE IF rb.temp[1].ValuesBatch # <<>>
         THEN [rb EXCEPT !.temp[1].ValuesBatch = <<values[1]>> \o @]
    ELSE IF rb.temp[1].Values # <<>>
         THEN [rb EXCEPT !.temp[1].ValuesBatch = <<values[1], rb.temp[1].Values[1]>>,
                         !.temp[1].Values = <<>>]
    ELSE [rb EXCEPT !.temp[1].Values = values]

WithValues_KeepValues(rb, values) ==
    IF rb.err # "" THEN rb
    ELSE IF values = <<>> THEN [rb EXCEPT !.err = "cannot specify a nil argument"]
    ELSE IF rb.temp = <<>> THEN Panic(rb)
    ELSE IF rb.temp[1].Query # ""
            /\ (rb.temp[1].Values # <<>> \/ rb.temp[1].ValuesBatch # <<>>)
         THEN [rb EXCEPT !.err = "cannot specify a batch for a query"]
    ELSE IF rb.temp[1].ValuesBatch # <<>>
         THEN [rb EXCEPT !.temp[1].ValuesBatch = Append(@, values[1])]
    ELSE IF rb.temp[1].Values # <<>>
         THEN [rb EXCEPT !.temp[1].ValuesBatch = <<rb.temp[1].Values[1], values[1]>>]
    ELSE [rb EXCEPT !.temp[1].Values = values]

\* func (rb *RequestBuilder) WithValues(values map[string]interface{})
\* values is <<>> for a nil map, <<m>> for the non-nil map m
WithValues(rb, values) ==
    IF rb.err # "" THEN rb
    ELSE IF values = <<>> THEN [rb EXCEPT !.err = "cannot specify a nil argument"]
    ELSE IF rb.temp = <<>> THEN Panic(rb)
    ELSE IF rb.temp[1].Query # ""
            /\ (rb.temp[1].Values # <<>> \/ rb.temp[1].ValuesBatch # <<>>)
         THEN [rb EXCEPT !.err = "cannot specify a batch for a query"]
    ELSE IF rb.temp[1].ValuesBatch # <<>>
         THEN [rb EXCEPT !.temp[1].ValuesBatch = Append(@, values[1])]
    ELSE IF rb.temp[1].Values # <<>>
         THEN [rb EXCEPT !.temp[1].ValuesBatch = <<rb.temp[1].Values[1], values[1]>>,
                         !.temp[1].Values = <<>>]
    ELSE [rb EXCEPT !.temp[1].Values = values]

WithEncoderAndCompression_Below19(rb, password, compressionLevel, fields) ==
    IF rb.err # "" THEN rb
    ELSE IF compressionLevel < 1 \/ compressionLevel >= 19
         THEN [rb EXCEPT !.err = "compressionLevel must be between 1 and 19"]
    ELSE IF Len(fields) <= 0
         THEN [rb EXCEPT !.err = "cannot specify an empty fields list"]
    ELSE IF rb.temp = <<>> THEN Panic(rb)
    ELSE IF rb.temp[1].Query # ""
         THEN [rb EXCEPT !.err = "cannot specify an encoder for a query"]
    ELSE [rb EXCEPT !.temp[1].Encoder =
              << requestItemCrypto(password, fields, compressionLevel) >>]

\* func (rb *RequestBuilder) WithEncoderAndCompression(password, compressionLevel, fields...)
WithEncoderAndCompression(rb, password, compressionLevel, fields) ==
    IF rb.err # "" THEN rb
    ELSE IF compressionLevel < 1 \/ compressionLevel > 19
         THEN [rb EXCEPT !.err = "compressionLevel must be between 1 and 19"]
    ELSE IF Len(fields) <= 0
         THEN [rb EXCEPT !.err = "cannot specify an empty fields list"]
    ELSE IF rb.temp = <<>> THEN Panic(rb)
    ELSE IF rb.temp[1].Query # ""
         THEN [rb EXCEPT !.err = "cannot specify an encoder for a query"]
    ELSE [rb EXCEPT !.temp[1].Encoder =
              << requestItemCrypto(password, fields, compressionLevel) >>]

WithEncoder_NoFieldsCheck(rb, password, fields) ==
    IF rb.err # "" THEN rb
    ELSE IF rb.temp = <<>> THEN Panic(rb)
    ELSE IF rb.temp[1].Query # ""
         THEN [rb EXCEPT !.err = "cannot specify an encoder for a query"]
    ELSE [rb EXCEPT !.temp[1].Encoder = << requestItemCrypto(password, fields, 0) >>]

\* func (rb *RequestBuilder) WithEncoder(password, fields...)
WithEncoder(rb, password, fields) ==
    IF rb.err # "" THEN rb
    ELSE IF Len(fields) <= 0
         THEN [rb EXCEPT !.err = "cannot specify an empty fields list"]
    ELSE IF rb.temp = <<>> THEN Panic(rb)
    ELSE IF rb.temp[1].Query # ""
         THEN [rb EXCEPT !.err = "cannot specify an encoder for a query"]
    ELSE [rb EXCEPT !.temp[1].Encoder = << requestItemCrypto(password, fields, 0) >>]

\* func (rb *RequestBuilder) WithDecoder(password, fields...)
WithDecoder(rb, password, fields) ==
    IF rb.err # "" THEN rb
    ELSE IF Len(fields) <= 0
         THEN [rb EXCEPT !.err = "cannot specify an empty fields list"]
    ELSE IF rb.temp = <<>> THEN Panic(rb)
    ELSE IF rb.temp[1].Statement # ""
         THEN [rb EXCEPT !.err = "cannot specify a decoder for a statement"]
    ELSE [rb EXCEPT !.temp[1].Decoder = << requestItemCrypto(password, fields, 0) >>]

Build_KeepLatched(rb) ==
    LET rb1 == IF rb.temp = <<>> /\ rb.err = ""
               THEN [rb EXCEPT !.err = "There are no requests"]
               ELSE rb
    IN  IF rb1.err # ""
        THEN [rb |-> rb1, req |-> <<>>, err |-> <<rb1.err>>]
        ELSE LET rb2 == [rb1 EXCEPT !.list.Transaction = Append(@, rb1.temp[1])]
             IN  [rb |-> rb2, req |-> << Request(rb2.list) >>, err |-> <<>>]

\* func (rb *RequestBuilder) Build() (*Request, error)
\* yields the builder after the call and the two return values
Build(rb) ==
    LET rb1 == IF rb.temp = <<>>
               THEN [rb EXCEPT !.err = "There are no requests"]
               ELSE rb
    IN  IF rb1.err # ""
        THEN [rb |-> rb1, req |-> <<>>, err |-> <<rb1.err>>]
        ELSE LET rb2 == [rb1 EXCEPT !.list.Transaction = Append(@, rb1.temp[1])]
             IN  [rb |-> rb2, req |-> << Request(rb2.list) >>, err |-> <<>>]

\* ------------------------------------------------------------------------
\* The calls a program makes on one RequestBuilder
\* ------------------------------------------------------------------------

\* the record kept in op for a call
Call(name, text, values, level, fields) ==
    [name |-> name, text |-> text, values |-> values, level |-> level,
     fields |-> fields]

\* the history record of an AddQuery/AddStatement call and of what was asked
\* of its item while it was the open item and no error was latched: noFail,
\* whether WithNoFail was called; values, the non-nil maps passed to
\* WithValues, in call order
AddCall(kind, text) ==
    [kind |-> kind, text |-> text, noFail |-> FALSE, values |-> <<>>]

\* the builder fields after a call that yielded r
Apply(r) ==
    /\ err' = r.err
    /\ list' = r.list
    /\ temp' = r.temp
    /\ panicked' = r.panic
    /\ firstErr' = IF firstErr = "" THEN r.err ELSE firstErr
    /\ ncalls' = ncalls + 1
    /\ UNCHANGED <<sendVars, concVars, clientVars, memVars>>

\* the builder after NewRequestBuilder()
InitRequestBuilder ==
    /\ err = NewRequestBuilder.err
    /\ list = NewRequestBuilder.list
    /\ temp = NewRequestBuilder.temp
    /\ panicked = FALSE
    /\ ret = [req |-> <<>>, err |-> <<>>]
    /\ op = Call("NewRequestBuilder", "", <<>>, 0, <<>>)
    /\ calls = <<>>
    /\ tempCall = <<>>
    /\ listCalls = <<>>
    /\ retCalls = <<>>
    /\ firstErr = ""
    /\ nilSeen = FALSE
    /\ builds = 0
    /\ ncalls = 0
    /\ emptyFields = FALSE

\* no Send call made yet on the Request r
InitSend(r) ==
    /\ client = <<>>
    /\ sreq = r.req
    /\ pc = "idle"
    /\ post = <<>>
    /\ resp = <<>>
    /\ out = [res |-> <<>>, code |-> 0, err |-> <<>>]
    /\ reqBefore = r.req
    /\ nsends = 0
    /\ nposts = 0

\* the two goroutines that call Send concurrently
Calls == {1, 2}

\* two concurrent Send calls on the Request r, each about to start
InitConcurrent(r, c1, c2) ==
    /\ creq = r.req
    /\ cclient = [p \in Calls |-> IF p = 1 THEN c1 ELSE c2]
    /\ cpc = [p \in Calls |-> "called"]
    /\ cbody = [p \in Calls |-> <<>>]
    /\ cwriter = 0
    /\ cread = [p \in Calls |-> 0]

\* no Send call is made
NoSend == InitSend(Request(request(<<>>, <<>>)))

\* no concurrent Send calls are made (the Clients are zero values)
NoConcurrent ==
    InitConcurrent(Request(request(<<>>, <<>>)),
                   [url |-> "", authMode |-> "", user |-> "", password |-> ""],
                   [url |-> "", authMode |-> "", user |-> "", password |-> ""])

\* the ClientBuilder b, no call made on it yet
InitClientBuilder(b) ==
    /\ cb = b
    /\ clis = <<>>
    /\ cret = [client |-> <<>>, err |-> <<>>]
    /\ cop = [name |-> "NewClientBuilder", target |-> 0]
    /\ nccalls = 0

\* no ClientBuilder is used (a zero value)
NoClientBuilder ==
    InitClientBuilder([url |-> "", authMode |-> "", user |-> "", password |-> ""])

\* a Go slice: its backing array (an index into the arrays allocated so far,
\* 0 when it has none), its length and its capacity
Slice(array, len, cap) == [array |-> array, len |-> len, cap |-> cap]

\* NewRequestBuilder(), its Transaction being make([]requestItem, 0)
InitMemory ==
    /\ mrb = [err |-> "", list |-> request(<<>>, Slice(0, 0, 0)), temp |-> <<>>,
              panic |-> FALSE]
    /\ arrays = <<>>
    /\ batches = <<>>
    /\ mrets = <<>>
    /\ mop = "NewRequestBuilder"
    /\ nmcalls = 0

Init ==
    /\ InitRequestBuilder
    /\ NoSend
    /\ NoConcurrent
    /\ NoClientBuilder
    /\ InitMemory

\* rb.AddQuery(query)
DoAddQuery ==
    \E query \in Texts :
        /\ ~panicked /\ ncalls < MaxCalls
        /\ Apply(AddQuery(RB, query))
        /\ op' = Call("AddQuery", query, <<>>, 0, <<>>)
        /\ calls' = Append(calls, AddCall("query", query))
        /\ listCalls' = IF err = "" THEN listCalls \o tempCall ELSE listCalls
        /\ tempCall' = IF err = "" THEN << AddCall("query", query) >> ELSE tempCall
        /\ UNCHANGED <<ret, retCalls, nilSeen, builds, emptyFields>>

\* rb.AddStatement(statement)
DoAddStatement ==
    \E statement \in Texts :
        /\ ~panicked /\ ncalls < MaxCalls
        /\ Apply(AddStatement(RB, statement))
        /\ op' = Call("AddStatement", statement, <<>>, 0, <<>>)
        /\ calls' = Append(calls, AddCall("statement", statement))
        /\ listCalls' = IF err = "" THEN listCalls \o tempCall ELSE listCalls
        /\ tempCall' = IF err = "" THEN << AddCall("statement", statement) >>
                       ELSE tempCall
        /\ UNCHANGED <<ret, retCalls, nilSeen, builds, emptyFields>>

\* rb.WithNoFail()
DoWithNoFail ==
    /\ ~panicked /\ ncalls < MaxCalls
    /\ Apply(WithNoFail(RB))
    /\ op' = Call("WithNoFail", "", <<>>, 0, <<>>)
    /\ tempCall' = IF err = "" /\ tempCall # <<>>
                   THEN << [tempCall[1] EXCEPT !.noFail = TRUE] >>
                   ELSE tempCall
    /\ UNCHANGED <<ret, calls, listCalls, retCalls, nilSeen, builds, emptyFields>>

\* rb.WithValues(values)
DoWithValues ==
    \E values \in ValuesArgs :
        /\ ~panicked /\ ncalls < MaxCalls
        /\ Apply(WithValues(RB, values))
        /\ op' = Call("WithValues", "", values, 0, <<>>)
        /\ nilSeen' = (nilSeen \/ values = <<>>)
        /\ tempCall' = IF err = "" /\ tempCall # <<>> /\ values # <<>>
                       THEN << [tempCall[1] EXCEPT !.values = Append(@, values[1])] >>
                       ELSE tempCall
        /\ UNCHANGED <<ret, calls, listCalls, retCalls, builds, emptyFields>>

\* rb.WithEncoderAndCompression(password, compressionLevel, fields...)
DoWithEncoderAndCompression ==
    \E password \in Passwords, compressionLevel \in Levels, fields \in FieldsArgs :
        /\ ~panicked /\ ncalls < MaxCalls
        /\ Apply(WithEncoderAndCompression(RB, password, compressionLevel, fields))
        /\ op' = Call("WithEncoderAndCompression", password, <<>>,
                      compressionLevel, fields)
        /\ emptyFields' = (emptyFields \/ fields = <<>>)
        /\ UNCHANGED <<ret, calls, tempCall, listCalls, retCalls, nilSeen, builds>>

\* rb.WithEncoder(password, fields...)
DoWithEncoder ==
    \E password \in Passwords, fields \in FieldsArgs :
        /\ ~panicked /\ ncalls < MaxCalls
        /\ Apply(WithEncoder(RB, password, fields))
        /\ op' = Call("WithEncoder", password, <<>>, 0, fields)
        /\ emptyFields' = (emptyFields \/ fields = <<>>)
        /\ UNCHANGED <<ret, calls, tempCall, listCalls, retCalls, nilSeen, builds>>

\* rb.WithDecoder(password, fields...)
DoWithDecoder ==
    \E password \in Passwords, fields \in FieldsArgs :
        /\ ~panicked /\ ncalls < MaxCalls
        /\ Apply(WithDecoder(RB, password, fields))
        /\ op' = Call("WithDecoder", password, <<>>, 0, fields)
        /\ emptyFields' = (emptyFields \/ fields = <<>>)
        /\ UNCHANGED <<ret, calls, tempCall, listCalls, retCalls, nilSeen, builds>>

\* rb.Build()
DoBuild ==
    LET b == Build(RB) IN
        /\ ~panicked /\ ncalls < MaxCalls
        /\ Apply(b.rb)
        /\ ret' = [req |-> b.req, err |-> b.err]
        /\ op' = Call("Build", "", <<>>, 0, <<>>)
        /\ listCalls' = IF b.req # <<>> THEN listCalls \o tempCall ELSE listCalls
        /\ retCalls' = IF b.req # <<>> THEN listCalls \o tempCall ELSE <<>>
        /\ builds' = IF b.req # <<>> THEN builds + 1 ELSE builds
        /\ UNCHANGED <<calls, tempCall, nilSeen, emptyFields>>

Next ==
    \/ DoAddQuery
    \/ DoAddStatement
    \/ DoWithNoFail
    \/ DoWithValues
    \/ DoWithEncoderAndCompression
    \/ DoWithEncoder
    \/ DoWithDecoder
    \/ DoBuild

Spec == Init /\ [][Next]_vars

\* ------------------------------------------------------------------------
\* Client.SendWithContext: data
\* ------------------------------------------------------------------------

\* Send/SendWithContext calls made on one Request
MaxSends == 2

\* AuthMode constants
AUTH_MODE_HTTP == "HTTP"

AUTH_MODE_INLINE == "INLINE"

AUTH_MODE_NONE == "NONE"

\* credentials{User, Password}
credentials(user, password) == [User |-> user, Password |-> password]

\* Client{ClientBuilder{url, authMode, user, password}}
Client(url, authMode, user, password) ==
    [url |-> url, authMode |-> authMode, user |-> user, password |-> password]

\* URLs given to the ClientBuilder; the second has no scheme and is rejected
\* when the HTTP request is constructed
GoodURL == "http://localhost:12321/db"

BadURL == ":db"

\* the Clients that send: every one passes the checks of ClientBuilder.Build
Clients ==
    { Client(GoodURL, AUTH_MODE_NONE, "", ""),
      Client(BadURL, AUTH_MODE_NONE, "", ""),
      Client(GoodURL, AUTH_MODE_INLINE, "user1", "pw1"),
      Client(GoodURL, AUTH_MODE_INLINE, "user2", "pw2"),
      Client(GoodURL, AUTH_MODE_HTTP, "user1", "pw1") }

\* a map whose entry "ch" holds a Go channel, a value encoding/json cannot
\* encode (only the entry's name is looked at)
ChanMap == { <<"ch", 0>> }

\* encoding/json can encode every value of the map
Encodable(m) == \A entry \in m : entry[1] # "ch"

\* the Requests that are sent, each built with the RequestBuilder
SendRequests ==
    { Build(AddQuery(NewRequestBuilder, "SELECT")).req[1],
      Build(WithValues(WithValues(AddStatement(
                AddQuery(NewRequestBuilder, "SELECT"), "SELECT"),
                << {<<"id", 1>>} >>), << {} >>)).req[1],
      Build(WithValues(AddStatement(NewRequestBuilder, "SELECT"),
                << ChanMap >>)).req[1] }

\* ------------------------------------------------------------------------
\* encoding/json as the struct tags of the request types drive it
\* ------------------------------------------------------------------------

\* json of a requestItemCrypto: compressionLevel has omitempty
MarshalCrypto(c) ==
    [k \in {"password", "fields"}
           \cup (IF c.CompressionLevel # 0 THEN {"compressionLevel"} ELSE {}) |->
        CASE k = "password" -> <<c.Password>>
          [] k = "fields" -> c.Fields
          [] k = "compressionLevel" -> <<c.CompressionLevel>>]

\* the keys present in the json of a requestItem: every field has omitempty,
\* which drops "", false, a nil pointer and a nil or empty map or slice
ItemKeys(item) ==
    (IF item.Query # "" THEN {"query"} ELSE {})
    \cup (IF item.Statement # "" THEN {"statement"} ELSE {})
    \cup (IF item.NoFail THEN {"noFail"} ELSE {})
    \cup (IF item.Values # <<>> /\ item.Values # << {} >> THEN {"values"} ELSE {})
    \cup (IF item.ValuesBatch # <<>> THEN {"valuesBatch"} ELSE {})
    \cup (IF item.Encoder # <<>> THEN {"encoder"} ELSE {})
    \cup (IF item.Decoder # <<>> THEN {"decoder"} ELSE {})

\* json of a requestItem
MarshalItem(item) ==
    [k \in ItemKeys(item) |->
        CASE k = "query" -> <<item.Query>>
          [] k = "statement" -> <<item.Statement>>
          [] k = "noFail" -> <<item.NoFail>>
          [] k = "values" -> item.Values
          [] k = "valuesBatch" -> item.ValuesBatch
          [] k = "encoder" -> <<MarshalCrypto(item.Encoder[1])>>
          [] k = "decoder" -> <<MarshalCrypto(item.Decoder[1])>>]

\* every map of the item can be encoded
EncodableItem(item) ==
    /\ \A i \in 1..Len(item.Values) : Encodable(item.Values[i])
    /\ \A i \in 1..Len(item.ValuesBatch) : Encodable(item.ValuesBatch[i])

\* json.Marshal(req.req): credentials has omitempty, transaction has not
Marshal(req) ==
    IF \E i \in 1..Len(req.Transaction) : ~EncodableItem(req.Transaction[i])
    THEN [ok |-> FALSE, json |-> <<>>]
    ELSE [ok |-> TRUE,
          json |-> << [credentials |-> req.Credentials,
                       transaction |-> [i \in 1..Len(req.Transaction) |->
                                            MarshalItem(req.Transaction[i])]] >>]

\* ------------------------------------------------------------------------
\* What the remote answers: status codes and bodies
\* ------------------------------------------------------------------------

\* HTTP status codes of the answers
Statuses == {200, 401, 500}

\* a JSON value inside a body: its JSON type and its content
JNull == [type |-> "null", bool |-> FALSE, num |-> 0, str |-> "", arr |-> <<>>]

JBool(b) == [JNull EXCEPT !.type = "bool", !.bool = b]

JNum(n) == [JNull EXCEPT !.type = "number", !.num = n]

JStr(str) == [JNull EXCEPT !.type = "string", !.str = str]

JArr(arr) == [JNull EXCEPT !.type = "array", !.arr = arr]

\* a body that is not JSON: only its text
TextBody(text) == [valid |-> FALSE, text |-> text, obj |-> <<>>]

\* a body that is a JSON object: its text and its members
ObjectBody(text, obj) == [valid |-> TRUE, text |-> text, obj |-> obj]

\* rows of a result set on the wire: column name -> raw JSON text of the cell
WireRow1 == [c \in {"ID", "VAL"} |-> IF c = "ID" THEN "1" ELSE "\"ONE\""]

WireRow2 == [c \in {"ID", "VAL"} |-> IF c = "ID" THEN "2" ELSE "null"]

\* entries of "results" on the wire, as JSON objects
WireQueryOK ==
    [k \in {"success", "resultSet"} |->
        IF k = "success" THEN JBool(TRUE) ELSE JArr(<<WireRow1, WireRow2>>)]

WireStatementOK ==
    [k \in {"success", "rowsUpdated"} |->
        IF k = "success" THEN JBool(TRUE) ELSE JNum(1)]

WireBatchOK ==
    [k \in {"success", "rowsUpdatedBatch"} |->
        IF k = "success" THEN JBool(TRUE) ELSE JArr(<<1, 1>>)]

WireFailed ==
    [k \in {"success", "error"} |->
        IF k = "success" THEN JBool(FALSE) ELSE JStr("UNIQUE constraint failed")]

WireNoOutcome == [k \in {"success"} |-> JBool(TRUE)]

WireTwoOutcomes ==
    [k \in {"success", "rowsUpdated", "resultSet"} |->
        CASE k = "success" -> JBool(TRUE)
          [] k = "rowsUpdated" -> JNum(1)
          [] k = "resultSet" -> JArr(<<>>)]

WireBadType ==
    [k \in {"success", "rowsUpdated"} |->
        IF k = "success" THEN JBool(TRUE) ELSE JStr("one")]

\* the bodies the remote answers with
Bodies ==
    << ObjectBody("{\"qryIdx\":1,\"error\":\"near SELENCT\"}",
           [k \in {"qryIdx", "error"} |->
               IF k = "qryIdx" THEN JNum(1) ELSE JStr("near SELENCT")]),
       ObjectBody("{\"qryIdx\":\"one\",\"error\":\"near SELENCT\"}",
           [k \in {"qryIdx", "error"} |->
               IF k = "qryIdx" THEN JStr("one") ELSE JStr("near SELENCT")]),
       TextBody("Unauthorized"),
       ObjectBody("{}", <<>>),
       ObjectBody("{\"results\":[query,statement]}",
           [k \in {"results"} |-> JArr(<<WireQueryOK, WireStatementOK>>)]),
       ObjectBody("{\"results\":[failed,batch]}",
           [k \in {"results"} |-> JArr(<<WireFailed, WireBatchOK>>)]),
       ObjectBody("{\"results\":[statement,badtype]}",
           [k \in {"results"} |-> JArr(<<WireStatementOK, WireBadType>>)]),
       ObjectBody("{\"results\":[nooutcome,twooutcomes]}",
           [k \in {"results"} |-> JArr(<<WireNoOutcome, WireTwoOutcomes>>)]),
       ObjectBody("{\"results\":\"none\"}",
           [k \in {"results"} |-> JStr("none")]) >>

\* ------------------------------------------------------------------------
\* encoding/json decoding into the response types
\* ------------------------------------------------------------------------

\* the member k of a JSON object, JNull when it is absent: json.Unmarshal
\* leaves the Go field at its zero value for an absent and for a null member
Member(obj, k) == IF k \in DOMAIN obj THEN obj[k] ELSE JNull

\* a member can be stored in a Go field of the JSON type t
Fits(obj, k, t) == Member(obj, k).type \in {t, "null"}

\* json.Unmarshal accepts the object as a responseItem
FitsResponseItem(obj) ==
    /\ Fits(obj, "success", "bool")
    /\ Fits(obj, "rowsUpdated", "number")
    /\ Fits(obj, "rowsUpdatedBatch", "array")
    /\ Fits(obj, "resultSet", "array")
    /\ Fits(obj, "error", "string")

\* responseItem{Success, RowsUpdated, RowsUpdatedBatch, ResultSet, Error}
\* decoded from a JSON object: a pointer or slice is <<>> when nil
responseItem(obj) ==
    [Success |-> Member(obj, "success").bool,
     RowsUpdated |-> IF Member(obj, "rowsUpdated").type = "number"
                     THEN << Member(obj, "rowsUpdated").num >> ELSE <<>>,
     RowsUpdatedBatch |-> IF Member(obj, "rowsUpdatedBatch").type = "array"
                          THEN << Member(obj, "rowsUpdatedBatch").arr >> ELSE <<>>,
     ResultSet |-> IF Member(obj, "resultSet").type = "array"
                   THEN << Member(obj, "resultSet").arr >> ELSE <<>>,
     Error |-> Member(obj, "error").str]

\* json.Unmarshal(body, &res) with res a response{Results}: ok is FALSE when
\* the body is not JSON or a member has a type the Go field cannot hold
UnmarshalResponse(body) ==
    IF ~body.valid THEN [ok |-> FALSE, Results |-> <<>>]
    ELSE IF ~Fits(body.obj, "results", "array") THEN [ok |-> FALSE, Results |-> <<>>]
    ELSE LET entries == Member(body.obj, "results").arr
         IN  IF \E i \in 1..Len(entries) : ~FitsResponseItem(entries[i])
             THEN [ok |-> FALSE, Results |-> <<>>]
             ELSE [ok |-> TRUE,
                   Results |-> [i \in 1..Len(entries) |-> responseItem(entries[i])]]

\* json.Unmarshal(v, &v2) of one result-set cell into an interface{}: the
\* cell is the raw text of a JSON value of an already validated document
UnmarshalCell(v) ==
    CASE v = "null" -> [ok |-> TRUE, v2 |-> JNull]
      [] v = "1" -> [ok |-> TRUE, v2 |-> JNum(1)]
      [] v = "2" -> [ok |-> TRUE, v2 |-> JNum(2)]
      [] v = "\"ONE\"" -> [ok |-> TRUE, v2 |-> JStr("ONE")]
      [] OTHER -> [ok |-> FALSE, v2 |-> JNull]

\* WsError{RequestIdx, Msg, Code}
WsError(requestIdx, msg, code) ==
    [ws |-> TRUE, RequestIdx |-> requestIdx, Msg |-> msg, Code |-> code]

\* an error of another package (encoding/json, net/http, io)
PlainError(msg) == [ws |-> FALSE, RequestIdx |-> 0, Msg |-> msg, Code |-> 0]

\* json.Unmarshal(body, &wserr): the item index is read from "qryIdx" and
\* the message from "error"; Code is not read from the body
UnmarshalWsError(body) ==
    IF ~body.valid THEN [ok |-> FALSE, wserr |-> WsError(0, "", 0)]
    ELSE IF ~(Fits(body.obj, "qryIdx", "number") /\ Fits(body.obj, "error", "string"))
         THEN [ok |-> FALSE, wserr |-> WsError(0, "", 0)]
    ELSE [ok |-> TRUE,
          wserr |-> WsError(Member(body.obj, "qryIdx").num,
                            Member(body.obj, "error").str, 0)]

\* ------------------------------------------------------------------------
\* Client.SendWithContext
\* ------------------------------------------------------------------------

\* the three values a Send call returns
Return(res, code, error) == [res |-> res, code |-> code, err |-> error]

\* url.Parse accepts the URL when the HTTP request is constructed
ParseableURL(url) == url # BadURL

\* the first statement of SendWithContext: a Client in inline mode stores
\* its credentials in req.req, the request the caller's *Request points to
AttachCredentials(c, req) ==
    IF c.authMode = AUTH_MODE_INLINE
    THEN [req EXCEPT !.Credentials = << credentials(c.user, c.password) >>]
    ELSE req

SendWithContextPost_KeepOnMarshalError(c, req) ==
    LET req1 == AttachCredentials(c, req)
        jsonData == Marshal(req1)
    IN  IF ~ParseableURL(c.url)
        THEN [req |-> req1, post |-> <<>>,
              ret |-> << Return(<<>>, 0, << PlainError("parse url") >>) >>]
        ELSE [req |-> req1,
              post |-> << [method |-> "POST", url |-> c.url,
                           basicAuth |-> IF c.authMode = AUTH_MODE_HTTP
                                         THEN << credentials(c.user, c.password) >>
                                         ELSE <<>>,
                           contentType |-> "application/json",
                           body |-> jsonData.json] >>,
              ret |-> <<>>]

\* SendWithContext up to client.Do(post): attach the inline credentials to
\* req.req, serialize it, construct the POST.  Yields req.req after the
\* assignment, the POST when one is issued, and the return values when the
\* call returns before issuing it.
SendWithContextPost(c, req) ==
    LET req1 == AttachCredentials(c, req)
        jsonData == Marshal(req1)
    IN  IF ~jsonData.ok
        THEN [req |-> req1, post |-> <<>>,
              ret |-> << Return(<<>>, 0, << PlainError("json: unsupported type") >>) >>]
        ELSE IF ~ParseableURL(c.url)
        THEN [req |-> req1, post |-> <<>>,
              ret |-> << Return(<<>>, 0, << PlainError("parse url") >>) >>]
        ELSE [req |-> req1,
              post |-> << [method |-> "POST", url |-> c.url,
                           basicAuth |-> IF c.authMode = AUTH_MODE_HTTP
                                         THEN << credentials(c.user, c.password) >>
                                         ELSE <<>>,
                           contentType |-> "application/json",
                           body |-> jsonData.json[1]] >>,
              ret |-> <<>>]

RemoteError_NoCode(StatusCode, body) ==
    LET parsed == UnmarshalWsError(body)
    IN  IF parsed.ok THEN parsed.wserr
        ELSE [parsed.wserr EXCEPT !.RequestIdx = -1, !.Msg = body.text]

\* the WsError built from a non-200 answer
RemoteError(StatusCode, body) ==
    LET parsed == UnmarshalWsError(body)
        wserr == IF parsed.ok THEN parsed.wserr
                 ELSE [parsed.wserr EXCEPT !.RequestIdx = -1, !.Msg = body.text]
    IN  [wserr EXCEPT !.Code = StatusCode]

\* every cell of every result set of the decoded envelope can be decoded
CellsDecode(Results) ==
    \A i \in 1..Len(Results) :
        \A i2 \in 1..Len(Results[i].ResultSet) :
            \A row \in 1..Len(Results[i].ResultSet[i2]) :
                \A k \in DOMAIN Results[i].ResultSet[i2][row] :
                    UnmarshalCell(Results[i].ResultSet[i2][row][k]).ok

ResponseItem_DropBatch(ri) ==
    [Success |-> ri.Success,
     Error |-> ri.Error,
     RowsUpdated |-> ri.RowsUpdated,
     RowsUpdatedBatch |-> <<>>,
     ResultSet |-> IF ri.ResultSet # <<>>
                   THEN << [i2 \in 1..Len(ri.ResultSet[1]) |->
                              [k \in DOMAIN ri.ResultSet[1][i2] |->
                                  UnmarshalCell(ri.ResultSet[1][i2][k]).v2]] >>
                   ELSE <<>>]

\* the ResponseItem built from one decoded responseItem
ResponseItem(ri) ==
    [Success |-> ri.Success,
     Error |-> ri.Error,
     RowsUpdated |-> ri.RowsUpdated,
     RowsUpdatedBatch |-> ri.RowsUpdatedBatch,
     ResultSet |-> IF ri.ResultSet # <<>>
                   THEN << [i2 \in 1..Len(ri.ResultSet[1]) |->
                              [k \in DOMAIN ri.ResultSet[1][i2] |->
                                  UnmarshalCell(ri.ResultSet[1][i2][k]).v2]] >>
                   ELSE <<>>]

\* Response{Results}
Response(Results) == [Results |-> Results]

SendWithContextResult_NoStatusCheck(StatusCode, body, readOK) ==
    IF ~readOK
    THEN Return(<<>>, StatusCode, << PlainError("read body") >>)
    ELSE LET res == UnmarshalResponse(body)
         IN  IF ~res.ok
             THEN Return(<<>>, StatusCode, << PlainError("json: cannot unmarshal") >>)
             ELSE IF ~CellsDecode(res.Results)
             THEN Return(<<>>, StatusCode, << PlainError("json: cannot unmarshal") >>)
             ELSE Return(<< Response([i \in 1..Len(res.Results) |->
                                          ResponseItem(res.Results[i])]) >>,
                         StatusCode, <<>>)

SendWithContextResult_IgnoreDecodeError(StatusCode, body, readOK) ==
    IF ~readOK
    THEN Return(<<>>, StatusCode, << PlainError("read body") >>)
    ELSE IF StatusCode # 200
    THEN Return(<<>>, StatusCode, << RemoteError(StatusCode, body) >>)
    ELSE LET res == UnmarshalResponse(body)
         IN  Return(<< Response([i \in 1..Len(res.Results) |->
                                    ResponseItem(res.Results[i])]) >>,
                    StatusCode, <<>>)

\* SendWithContext after client.Do(post) returned a response with this
\* status code and body; readOK is FALSE when io.ReadAll fails
SendWithContextResult(StatusCode, body, readOK) ==
    IF ~readOK
    THEN Return(<<>>, StatusCode, << PlainError("read body") >>)
    ELSE IF StatusCode # 200
    THEN Return(<<>>, StatusCode, << RemoteError(StatusCode, body) >>)
    ELSE LET res == UnmarshalResponse(body)
         IN  IF ~res.ok
             THEN Return(<<>>, StatusCode, << PlainError("json: cannot unmarshal") >>)
             ELSE IF ~CellsDecode(res.Results)
             THEN Return(<<>>, StatusCode, << PlainError("json: cannot unmarshal") >>)
             ELSE Return(<< Response([i \in 1..Len(res.Results) |->
                                          ResponseItem(res.Results[i])]) >>,
                         StatusCode, <<>>)

\* c.SendWithContext(ctx, req) on the *Request: the call up to client.Do
SendCall(c) ==
    LET p == SendWithContextPost(c, sreq) IN
        /\ pc # "posted"
        /\ nsends < MaxSends
        /\ client' = <<c>>
        /\ reqBefore' = sreq
        /\ sreq' = p.req
        /\ post' = p.post
        /\ resp' = <<>>
        /\ out' = IF p.ret # <<>> THEN p.ret[1] ELSE Return(<<>>, 0, <<>>)
        /\ pc' = IF p.ret # <<>> THEN "returned" ELSE "posted"
        /\ nsends' = nsends + 1
        /\ nposts' = IF p.post # <<>> THEN 1 ELSE 0

\* c.Send(req) through one of the Clients
DoSend ==
    \E c \in Clients :
        /\ SendCall(c)
        /\ UNCHANGED <<builderVars, concVars, clientVars, memVars>>

DoTransportFailure_Retry ==
    /\ pc = "posted"
    /\ nposts < 2
    /\ nposts' = nposts + 1
    /\ UNCHANGED <<client, sreq, pc, post, resp, out, reqBefore, nsends>>
    /\ UNCHANGED <<builderVars, concVars, clientVars, memVars>>

\* client.Do(post) fails: no response is received
DoTransportFailure ==
    /\ pc = "posted"
    /\ out' = Return(<<>>, 0, << PlainError("transport") >>)
    /\ pc' = "returned"
    /\ UNCHANGED <<client, sreq, post, resp, reqBefore, nsends, nposts>>
    /\ UNCHANGED <<builderVars, concVars, clientVars, memVars>>

\* client.Do(post) returns a response; the call reads and decodes it
DoResponse ==
    \E StatusCode \in Statuses, b \in 1..Len(Bodies), readOK \in BOOLEAN :
        /\ pc = "posted"
        /\ resp' = << [StatusCode |-> StatusCode, body |-> Bodies[b],
                       readOK |-> readOK] >>
        /\ out' = SendWithContextResult(StatusCode, Bodies[b], readOK)
        /\ pc' = "returned"
        /\ UNCHANGED <<client, sreq, post, reqBefore, nsends, nposts>>
        /\ UNCHANGED <<builderVars, concVars, clientVars, memVars>>

SendInit ==
    /\ InitRequestBuilder
    /\ \E r \in SendRequests : InitSend(r)
    /\ NoConcurrent
    /\ NoClientBuilder
    /\ InitMemory

SendNext ==
    \/ DoSend
    \/ DoTransportFailure
    \/ DoResponse

SpecSend == SendInit /\ [][SendNext]_vars

\* ------------------------------------------------------------------------
\* ClientBuilder and Client
\* ------------------------------------------------------------------------

MaxClientCalls == 3

PROTOCOL_HTTP == "http"

PROTOCOL_HTTPS == "https"

\* the arguments given to the ClientBuilder methods
URLs == {"", GoodURL}

Users == {"", "user1"}

Secrets == {"", "pw1"}

Ports == {12321}

\* fmt's %d of a port
PortText(port) == CASE port = 12321 -> "12321" [] OTHER -> "0"

\* ClientBuilder{}: the zero value of the struct
ClientBuilder == [url |-> "", authMode |-> "", user |-> "", password |-> ""]

NewClientBuilder == [ClientBuilder EXCEPT !.authMode = AUTH_MODE_NONE]

WithURL(b, url) == [b EXCEPT !.url = url]

WithURLComponents(b, protocol, host, port, databaseId) ==
    [b EXCEPT !.url = protocol \o "://" \o host \o ":" \o PortText(port)
                      \o "/" \o databaseId]

WithURLComponentsNoPort(b, protocol, host, databaseId) ==
    [b EXCEPT !.url = protocol \o "://" \o host \o "/" \o databaseId]

WithInlineAuth(b, user, password) ==
    [b EXCEPT !.authMode = AUTH_MODE_INLINE, !.user = user,
              !.password = password]

WithHTTPAuth(b, user, password) ==
    [b EXCEPT !.authMode = AUTH_MODE_HTTP, !.user = user,
              !.password = password]

ClientBuilderBuild_NoPasswordCheck(b) ==
    IF b.url = ""
    THEN [client |-> <<>>, err |-> << "no url specified" >>]
    ELSE IF b.authMode # AUTH_MODE_HTTP /\ b.authMode # AUTH_MODE_NONE
            /\ b.authMode # AUTH_MODE_INLINE
    THEN [client |-> <<>>, err |-> << "invalid authMode" >>]
    ELSE IF b.authMode # AUTH_MODE_NONE /\ b.user = ""
    THEN [client |-> <<>>, err |-> << "no user or password specified" >>]
    ELSE [client |-> << Client(b.url, b.authMode, b.user, b.password) >>,
          err |-> <<>>]

\* cb.Build(): the Client holds a copy of *cb
ClientBuilderBuild(b) ==
    IF b.url = ""
    THEN [client |-> <<>>, err |-> << "no url specified" >>]
    ELSE IF b.authMode # AUTH_MODE_HTTP /\ b.authMode # AUTH_MODE_NONE
            /\ b.authMode # AUTH_MODE_INLINE
    THEN [client |-> <<>>, err |-> << "invalid authMode" >>]
    ELSE IF b.authMode # AUTH_MODE_NONE /\ (b.user = "" \/ b.password = "")
    THEN [client |-> <<>>, err |-> << "no user or password specified" >>]
    ELSE [client |-> << Client(b.url, b.authMode, b.user, b.password) >>,
          err |-> <<>>]

\* the receivers a ClientBuilder method can be called on: 0 is the
\* ClientBuilder, i > 0 the ClientBuilder embedded in the i-th built Client
\* (Client is struct{ ClientBuilder }, so the methods are promoted to it)
Targets == 0..Len(clis)

Target(t) == IF t = 0 THEN cb ELSE clis[t]

SetTarget_Shared(t, b) ==
    IF t = 0
    THEN /\ cb' = b
         /\ clis' = [i \in 1..Len(clis) |-> b]
    ELSE /\ clis' = [clis EXCEPT ![t] = b]
         /\ cb' = cb

\* a method with a pointer receiver stores b in its receiver; a Client built
\* earlier holds its own copy of the builder
SetTarget(t, b) ==
    IF t = 0
    THEN /\ cb' = b
         /\ clis' = clis
    ELSE /\ clis' = [clis EXCEPT ![t] = b]
         /\ cb' = cb

\* the frame of a ClientBuilder method call
ClientCall(name, t) ==
    /\ nccalls < MaxClientCalls
    /\ pc # "posted"
    /\ cop' = [name |-> name, target |-> t]
    /\ nccalls' = nccalls + 1
    /\ UNCHANGED <<builderVars, sendVars, concVars, memVars>>

DoWithURL ==
    \E t \in Targets, url \in URLs :
        /\ ClientCall("WithURL", t)
        /\ SetTarget(t, WithURL(Target(t), url))
        /\ UNCHANGED cret

DoWithURLComponents ==
    \E t \in Targets, port \in Ports :
        /\ ClientCall("WithURLComponents", t)
        /\ SetTarget(t, WithURLComponents(Target(t), PROTOCOL_HTTP, "localhost",
                                          port, "db"))
        /\ UNCHANGED cret

DoWithURLComponentsNoPort ==
    \E t \in Targets :
        /\ ClientCall("WithURLComponentsNoPort", t)
        /\ SetTarget(t, WithURLComponentsNoPort(Target(t), PROTOCOL_HTTPS,
                                                "localhost", "db"))
        /\ UNCHANGED cret

DoWithInlineAuth ==
    \E t \in Targets, user \in Users, password \in Secrets :
        /\ ClientCall("WithInlineAuth", t)
        /\ SetTarget(t, WithInlineAuth(Target(t), user, password))
        /\ UNCHANGED cret

DoWithHTTPAuth ==
    \E t \in Targets, user \in Users, password \in Secrets :
        /\ ClientCall("WithHTTPAuth", t)
        /\ SetTarget(t, WithHTTPAuth(Target(t), user, password))
        /\ UNCHANGED cret

\* Build() called on the ClientBuilder or, promoted, on a built Client
DoClientBuilderBuild ==
    \E t \in Targets :
        LET b == ClientBuilderBuild(Target(t)) IN
            /\ ClientCall("Build", t)
            /\ cret' = b
            /\ clis' = clis \o b.client
            /\ cb' = cb

\* cli.Send(req) through a built Client
DoClientSend ==
    \E t \in 1..Len(clis) :
        /\ SendCall(clis[t])
        /\ cop' = [name |-> "Send", target |-> t]
        /\ UNCHANGED <<cb, clis, cret, nccalls>>
        /\ UNCHANGED <<builderVars, concVars, memVars>>

ClientInit ==
    /\ InitRequestBuilder
    /\ InitSend(Build(AddQuery(NewRequestBuilder, "SELECT")).req[1])
    /\ NoConcurrent
    /\ \E b \in {NewClientBuilder, ClientBuilder} : InitClientBuilder(b)
    /\ InitMemory

ClientNext ==
    \/ DoWithURL
    \/ DoWithURLComponents
    \/ DoWithURLComponentsNoPort
    \/ DoWithInlineAuth
    \/ DoWithHTTPAuth
    \/ DoClientBuilderBuild
    \/ DoClientSend
    \/ DoTransportFailure
    \/ DoResponse

SpecClient == ClientInit /\ [][ClientNext]_vars

\* ------------------------------------------------------------------------
\* two goroutines calling Send on the same *Request
\* ------------------------------------------------------------------------

\* call p executes the inline-credentials statement
DoAttach(p) ==
    /\ cpc[p] = "called"
    /\ creq' = AttachCredentials(cclient[p], creq)
    /\ cwriter' = IF cclient[p].authMode = AUTH_MODE_INLINE THEN p ELSE cwriter
    /\ cpc' = [cpc EXCEPT ![p] = "attached"]
    /\ UNCHANGED <<cclient, cbody, cread>>
    /\ UNCHANGED <<builderVars, sendVars, clientVars, memVars>>

\* call p executes json.Marshal(req.req)
DoMarshal(p) ==
    /\ cpc[p] = "attached"
    /\ cbody' = [cbody EXCEPT ![p] = Marshal(creq).json]
    /\ cread' = [cread EXCEPT ![p] = cwriter]
    /\ cpc' = [cpc EXCEPT ![p] = "marshalled"]
    /\ UNCHANGED <<creq, cclient, cwriter>>
    /\ UNCHANGED <<builderVars, sendVars, clientVars, memVars>>

ConcurrentInit ==
    /\ InitRequestBuilder
    /\ NoSend
    /\ \E r \in SendRequests, c1 \in Clients, c2 \in Clients :
           InitConcurrent(r, c1, c2)
    /\ NoClientBuilder
    /\ InitMemory

ConcurrentNext ==
    \/ \E p \in Calls : DoAttach(p)
    \/ \E p \in Calls : DoMarshal(p)

SpecConcurrent == ConcurrentInit /\ [][ConcurrentNext]_vars

\* ------------------------------------------------------------------------
\* The RequestBuilder with its slices as Go stores them: a Request returned
\* by Build() holds a copy of the slice header of rb.list.Transaction, and an
\* item copied into the list holds a copy of the header of its ValuesBatch
\* ------------------------------------------------------------------------

MaxMemCalls == 6

\* the maps passed to WithValues
MemMaps == { {<<"id", 1>>}, {<<"id", 2>>} }

\* the capacity append gives a slice that has to grow to hold need elements
GrowCap(cap, need) == IF 2 * cap >= need THEN 2 * cap ELSE need

\* Go's append(s, x) on a slice of the heap: x is stored in place when the
\* capacity allows, else in a newly allocated array that starts with a copy
\* of the elements; zero fills the unused cells
append(heap, s, x, zero) ==
    IF s.len < s.cap
    THEN [heap |-> [heap EXCEPT ![s.array][s.len + 1] = x],
          slice |-> Slice(s.array, s.len + 1, s.cap)]
    ELSE LET c == GrowCap(s.cap, s.len + 1) IN
             [heap |-> Append(heap,
                          [i \in 1..c |->
                              IF i <= s.len THEN heap[s.array][i]
                              ELSE IF i = s.len + 1 THEN x ELSE zero]),
              slice |-> Slice(Len(heap) + 1, s.len + 1, c)]

\* the builder with the arrays its slices point into
Mem == [rb |-> mrb, arrays |-> arrays, batches |-> batches]

\* rb.list.Transaction = append(rb.list.Transaction, *rb.temp)
AppendTemp(M) ==
    LET a == append(M.arrays, M.rb.list.Transaction, M.rb.temp[1], requestItem)
    IN  [M EXCEPT !.arrays = a.heap, !.rb.list.Transaction = a.slice]

\* AddQuery
MemAddQuery(M, query) ==
    IF M.rb.err # "" THEN M
    ELSE LET flushed == IF M.rb.temp # <<>> THEN AppendTemp(M) ELSE M
         IN  [flushed EXCEPT !.rb.temp = << [requestItem EXCEPT !.Query = query] >>]

MemAddStatement_NoFlush(M, statement) ==
    IF M.rb.err # "" THEN M
    ELSE [M EXCEPT !.rb.temp = << [requestItem EXCEPT !.Statement = statement] >>]

\* AddStatement
MemAddStatement(M, statement) ==
    IF M.rb.err # "" THEN M
    ELSE LET flushed == IF M.rb.temp # <<>> THEN AppendTemp(M) ELSE M
         IN  [flushed EXCEPT
                 !.rb.temp = << [requestItem EXCEPT !.Statement = statement] >>]

\* WithValues
MemWithValues(M, values) ==
    IF M.rb.err # "" THEN M
    ELSE IF values = <<>>
         THEN [M EXCEPT !.rb.err = "cannot specify a nil argument"]
    ELSE IF M.rb.temp = <<>> THEN [M EXCEPT !.rb.panic = TRUE]
    ELSE IF M.rb.temp[1].Query # ""
            /\ (M.rb.temp[1].Values # <<>> \/ M.rb.temp[1].ValuesBatch # <<>>)
         THEN [M EXCEPT !.rb.err = "cannot specify a batch for a query"]
    ELSE IF M.rb.temp[1].ValuesBatch # <<>>
         THEN LET a == append(M.batches, M.rb.temp[1].ValuesBatch[1], values[1], {})
              IN  [M EXCEPT !.batches = a.heap,
                            !.rb.temp[1].ValuesBatch = << a.slice >>]
    ELSE IF M.rb.temp[1].Values # <<>>
         THEN [M EXCEPT !.batches = Append(@, <<M.rb.temp[1].Values[1], values[1]>>),
                        !.rb.temp[1].ValuesBatch =
                            << Slice(Len(M.batches) + 1, 2, 2) >>,
                        !.rb.temp[1].Values = <<>>]
    ELSE [M EXCEPT !.rb.temp[1].Values = values]

MemBuild_ResetList(M) ==
    LET M1 == IF M.rb.temp = <<>>
              THEN [M EXCEPT !.rb.err = "There are no requests"]
              ELSE M
    IN  IF M1.rb.err # ""
        THEN [M |-> M1, req |-> <<>>, err |-> <<M1.rb.err>>]
        ELSE LET M2 == AppendTemp(M1)
             IN  [M |-> [M2 EXCEPT !.rb.list.Transaction.len = 0],
                  req |-> << Request(M2.rb.list) >>, err |-> <<>>]

\* Build: &Request{rb.list} copies the slice header
MemBuild(M) ==
    LET M1 == IF M.rb.temp = <<>>
              THEN [M EXCEPT !.rb.err = "There are no requests"]
              ELSE M
    IN  IF M1.rb.err # ""
        THEN [M |-> M1, req |-> <<>>, err |-> <<M1.rb.err>>]
        ELSE LET M2 == AppendTemp(M1)
             IN  [M |-> M2, req |-> << Request(M2.rb.list) >>, err |-> <<>>]

\* the builder and the arrays after a call that yielded M
MemApply(name, M) ==
    /\ ~mrb.panic
    /\ nmcalls < MaxMemCalls
    /\ mrb' = M.rb
    /\ arrays' = M.arrays
    /\ batches' = M.batches
    /\ mop' = name
    /\ nmcalls' = nmcalls + 1
    /\ UNCHANGED <<builderVars, sendVars, concVars, clientVars>>

DoMemAddQuery ==
    /\ MemApply("AddQuery", MemAddQuery(Mem, "SELECT"))
    /\ UNCHANGED mrets

DoMemAddStatement ==
    /\ MemApply("AddStatement", MemAddStatement(Mem, "INSERT"))
    /\ UNCHANGED mrets

\* the methods that write only rb.err and the fields of *rb.temp
DoMemWithNoFail ==
    /\ MemApply("WithNoFail", [Mem EXCEPT !.rb = WithNoFail(mrb)])
    /\ UNCHANGED mrets

DoMemWithValues ==
    \E m \in MemMaps :
        /\ MemApply("WithValues", MemWithValues(Mem, <<m>>))
        /\ UNCHANGED mrets

DoMemWithEncoder ==
    /\ MemApply("WithEncoder", [Mem EXCEPT !.rb = WithEncoder(mrb, "pw", <<"VAL">>)])
    /\ UNCHANGED mrets

DoMemWithDecoder ==
    /\ MemApply("WithDecoder", [Mem EXCEPT !.rb = WithDecoder(mrb, "pw", <<"VAL">>)])
    /\ UNCHANGED mrets

DoMemBuild ==
    LET b == MemBuild(Mem) IN
        /\ MemApply("Build", b.M)
        /\ mrets' = mrets \o b.req

MemoryInit ==
    /\ InitRequestBuilder
    /\ NoSend
    /\ NoConcurrent
    /\ NoClientBuilder
    /\ InitMemory

MemoryNext ==
    \/ DoMemAddQuery
    \/ DoMemAddStatement
    \/ DoMemWithNoFail
    \/ DoMemWithValues
    \/ DoMemWithEncoder
    \/ DoMemWithDecoder
    \/ DoMemBuild

SpecMemory == MemoryInit /\ [][MemoryNext]_vars

\* ------------------------------------------------------------------------
\* Properties of the RequestBuilder
\* ------------------------------------------------------------------------

\* the transaction of the Request the last Build() returned
RetTransaction == ret.req[1].req.Transaction

\* the last call was a Build() that returned a Request
Built == op.name = "Build" /\ ret.req # <<>>

\* item holds the text of call in the field of the call's kind and nothing
\* in the field of the other kind
ItemOfCall(item, call) ==
    IF call.kind = "query"
    THEN item.Query = call.text /\ item.Statement = ""
    ELSE item.Statement = call.text /\ item.Query = ""

\* C1: after the first Build() of a builder succeeds, the returned
\* transaction has one item per AddQuery/AddStatement call made, and the
\* i-th item holds the text of the i-th call in the field of that call's kind.
C1_TransactionFollowsCalls ==
    (Built /\ builds = 1) =>
        /\ Len(RetTransaction) = Len(calls)
        /\ \A i \in 1..Len(RetTransaction) : ItemOfCall(RetTransaction[i], calls[i])

\* C1 witness: a query with a binding followed by a statement, then built
C1_Witness ==
    /\ Built /\ builds = 1
    /\ Len(RetTransaction) = 2
    /\ RetTransaction[1].Query = "SELECT"
    /\ RetTransaction[1].Values # <<>>
    /\ RetTransaction[2].Statement = "SELECT"

\* C2: once an error is latched, every later call leaves the transaction
\* list and the open item unchanged, the error stays latched, no call
\* panics, and every later Build() returns an error and no Request.
C2_LatchedErrorFreezesBuilder ==
    [][ err # "" =>
            /\ list' = list
            /\ temp' = temp
            /\ err' # ""
            /\ ~panicked'
            /\ (op'.name = "Build" => ret'.req = <<>> /\ ret'.err # <<>>) ]_vars

\* C2 witness: an AddStatement made after WithValues(nil) latched its error
\* on an open query item
C2_Witness ==
    /\ err = "cannot specify a nil argument"
    /\ op.name = "AddStatement"
    /\ temp # <<>>
    /\ temp[1].Query = "SELECT"
    /\ list.Transaction = <<>>

\* C3: when some call failed, Build() returns the error of the first
\* failing call.
C3_FirstErrorWins ==
    (op.name = "Build" /\ firstErr # "") => ret.err = <<firstErr>>

\* C4: no builder call panics.
C4_NoPanic == ~panicked

\* what the open item must hold after the WithValues calls in values
ValuesOfCalls(item, values) ==
    IF Len(values) = 0 THEN item.Values = <<>> /\ item.ValuesBatch = <<>>
    ELSE IF Len(values) = 1
         THEN item.Values = <<values[1]>> /\ item.ValuesBatch = <<>>
    ELSE item.Values = <<>> /\ item.ValuesBatch = values

\* C5: on an open statement item with no latched error, one WithValues(m1)
\* leaves values = m1 and no batch; two or more leave values unset and the
\* batch equal to the maps passed, in call order.
C5_ValuesThenBatchInCallOrder ==
    (err = "" /\ ~panicked /\ tempCall # <<>> /\ tempCall[1].kind = "statement") =>
        /\ temp # <<>>
        /\ ValuesOfCalls(temp[1], tempCall[1].values)

\* C5 witness: a third WithValues on a statement, the maps not all equal
C5_Witness ==
    /\ err = "" /\ tempCall # <<>> /\ tempCall[1].kind = "statement"
    /\ op.name = "WithValues"
    /\ Len(tempCall[1].values) = 3
    /\ tempCall[1].values[1] # tempCall[1].values[2]
    /\ tempCall[1].values[2] # tempCall[1].values[3]

\* values and valuesBatch are not both set, and a set batch has >= 2 maps
ValuesExclusive(item) ==
    /\ ~(item.Values # <<>> /\ item.ValuesBatch # <<>>)
    /\ item.ValuesBatch # <<>> => Len(item.ValuesBatch) >= 2

\* C6: in the open item, in every item of the builder's list and in every
\* item of a built Request, values and valuesBatch are never both set and a
\* set valuesBatch holds at least two maps.
C6_ValuesXorBatch ==
    /\ temp # <<>> => ValuesExclusive(temp[1])
    /\ \A i \in 1..Len(list.Transaction) : ValuesExclusive(list.Transaction[i])
    /\ ret.req # <<>> =>
           \A i \in 1..Len(RetTransaction) : ValuesExclusive(RetTransaction[i])

\* C6 witness: a built Request with a promoted batch
C6_Witness ==
    /\ Built
    /\ \E i \in 1..Len(RetTransaction) :
           /\ Len(RetTransaction[i].ValuesBatch) = 2
           /\ RetTransaction[i].Values = <<>>
           /\ retCalls[i].values = RetTransaction[i].ValuesBatch

\* C7: a second WithValues on an item opened by AddQuery latches an error,
\* and no built Request has a valuesBatch on an item added by AddQuery.
C7_NoBatchOnQuery ==
    /\ (err = "" /\ tempCall # <<>> /\ tempCall[1].kind = "query") =>
           Len(tempCall[1].values) <= 1
    /\ ret.req # <<>> =>
           \A i \in 1..Len(RetTransaction) :
               retCalls[i].kind = "query" => RetTransaction[i].ValuesBatch = <<>>

\* C8: in a built Request an encoder is only on items added by AddStatement
\* and a decoder only on items added by AddQuery.
C8_EncoderOnStatementDecoderOnQuery ==
    ret.req # <<>> =>
        \A i \in 1..Len(RetTransaction) :
            /\ RetTransaction[i].Encoder # <<>> => retCalls[i].kind = "statement"
            /\ RetTransaction[i].Decoder # <<>> => retCalls[i].kind = "query"

C10_NilValuesFailBuild ==
    nilSeen =>
        /\ err # ""
        /\ op.name = "Build" => (ret.req = <<>> /\ ret.err # <<>>)

\* C10 witness: WithValues(nil) on a statement whose batch had started,
\* then a failing Build()
C10_Witness ==
    /\ nilSeen
    /\ op.name = "Build"
    /\ ret.req = <<>>
    /\ temp # <<>>
    /\ Len(temp[1].ValuesBatch) >= 2

\* every encoder and decoder of the item has a non-empty fields list
FieldsNonEmpty(item) ==
    /\ item.Encoder # <<>> => Len(item.Encoder[1].Fields) > 0
    /\ item.Decoder # <<>> => Len(item.Decoder[1].Fields) > 0

\* C11: once WithEncoder, WithEncoderAndCompression or WithDecoder was
\* called with an empty fields list an error is latched and every Build()
\* from then on fails; every encoder and decoder of a built Request has a
\* non-empty fields list.
C11_EmptyFieldsFailBuild ==
    /\ emptyFields =>
           /\ err # ""
           /\ op.name = "Build" => (ret.req = <<>> /\ ret.err # <<>>)
    /\ ret.req # <<>> =>
           \A i \in 1..Len(RetTransaction) : FieldsNonEmpty(RetTransaction[i])

\* C11 witness: an empty fields list given on an open statement item (where
\* an encoder is allowed), then a failing Build()
C11_Witness ==
    /\ emptyFields
    /\ firstErr = "cannot specify an empty fields list"
    /\ op.name = "Build"
    /\ ret.req = <<>>
    /\ temp # <<>>
    /\ temp[1].Statement = "SELECT"

\* C12: WithEncoderAndCompression on an open statement item, with a
\* non-empty fields list and no latched error, latches an error exactly when
\* the level is below 1 or above 19; otherwise the item's encoder holds the
\* password, the fields and that level.
C12_CompressionLevelRange ==
    [][ ( /\ err = "" /\ tempCall # <<>> /\ tempCall[1].kind = "statement"
          /\ ncalls' = ncalls + 1
          /\ op'.name = "WithEncoderAndCompression"
          /\ op'.fields # <<>> ) =>
            IF op'.level < 1 \/ op'.level > 19
            THEN err' # "" /\ temp' = temp
            ELSE /\ err' = ""
                 /\ ~panicked'
                 /\ temp' = << [temp[1] EXCEPT !.Encoder =
                        << [Password |-> op'.text, Fields |-> op'.fields,
                            CompressionLevel |-> op'.level] >>] >> ]_vars

\* C12 witness: level 19 stored on a statement's encoder
C12_Witness ==
    /\ op.name = "WithEncoderAndCompression" /\ op.level = 19
    /\ err = "" /\ tempCall # <<>> /\ tempCall[1].kind = "statement"
    /\ temp[1].Encoder # <<>>
    /\ temp[1].Encoder[1].CompressionLevel = 19

Answered == pc = "returned" /\ resp # <<>> /\ resp[1].readOK

\* C14: every return of Send has either a Response and no error, or an error
\* and no Response; a Response is returned only with status code 200.
C14_ResponseXorError ==
    pc = "returned" =>
        /\ (out.res # <<>>) # (out.err # <<>>)
        /\ out.res # <<>> => out.code = 200

C14_Witness ==
    /\ pc = "returned"
    /\ out.res # <<>>
    /\ out.err = <<>>
    /\ Len(out.res[1].Results) = 2

\* the body is a JSON object whose "qryIdx", when present, is a number and
\* whose "error", when present, is a string
ErrorShape(body) ==
    /\ body.valid
    /\ Member(body.obj, "qryIdx").type \in {"number", "null"}
    /\ Member(body.obj, "error").type \in {"string", "null"}

MatchesEnvelope(body) ==
    /\ body.valid
    /\ Member(body.obj, "results").type \in {"array", "null"}
    /\ \A i \in 1..Len(Member(body.obj, "results").arr) :
           LET entry == Member(body.obj, "results").arr[i] IN
               /\ Member(entry, "success").type \in {"bool", "null"}
               /\ Member(entry, "rowsUpdated").type \in {"number", "null"}
               /\ Member(entry, "rowsUpdatedBatch").type \in {"array", "null"}
               /\ Member(entry, "resultSet").type \in {"array", "null"}
               /\ Member(entry, "error").type \in {"string", "null"}

C18_ResultsFollowWire ==
    (Answered /\ resp[1].StatusCode = 200 /\ MatchesEnvelope(resp[1].body)) =>
        /\ out.res # <<>>
        /\ LET wire == Member(resp[1].body.obj, "results").arr
               Results == out.res[1].Results
           IN  /\ Len(Results) = Len(wire)
               /\ \A i \in 1..Len(wire) :
                      /\ Results[i].Success = Member(wire[i], "success").bool
                      /\ Results[i].Error = Member(wire[i], "error").str
                      /\ Results[i].RowsUpdated =
                             IF Member(wire[i], "rowsUpdated").type = "number"
                             THEN << Member(wire[i], "rowsUpdated").num >>
                             ELSE <<>>
                      /\ Results[i].RowsUpdatedBatch =
                             IF Member(wire[i], "rowsUpdatedBatch").type = "array"
                             THEN << Member(wire[i], "rowsUpdatedBatch").arr >>
                             ELSE <<>>
                      /\ Results[i].ResultSet # <<>> <=>
                             Member(wire[i], "resultSet").type = "array"
                      /\ Results[i].ResultSet # <<>> =>
                             LET rows == Member(wire[i], "resultSet").arr IN
                                 /\ Len(Results[i].ResultSet[1]) = Len(rows)
                                 /\ \A r \in 1..Len(rows) :
                                        DOMAIN Results[i].ResultSet[1][r] =
                                            DOMAIN rows[r]

C18_Witness ==
    /\ Answered
    /\ resp[1].StatusCode = 200
    /\ resp[1].body = Bodies[6]
    /\ out.res # <<>>
    /\ Len(out.res[1].Results) = 2
    /\ out.res[1].Results[1].Error # ""
    /\ out.res[1].Results[2].RowsUpdatedBatch # <<>>

\* how many of the four outcome fields of a ResponseItem are populated
Populated(item) ==
    (IF item.Error # "" THEN 1 ELSE 0)
    + (IF item.RowsUpdated # <<>> THEN 1 ELSE 0)
    + (IF item.RowsUpdatedBatch # <<>> THEN 1 ELSE 0)
    + (IF item.ResultSet # <<>> THEN 1 ELSE 0)

\* C19: every ResponseItem of a returned Response has exactly one of Error,
\* RowsUpdated, RowsUpdatedBatch and ResultSet populated.
C19_ExactlyOneOutcome ==
    (pc = "returned" /\ out.res # <<>>) =>
        \A i \in 1..Len(out.res[1].Results) :
            Populated(out.res[1].Results[i]) = 1

\* C20: after Send through an inline-auth Client returns, the Request holds
\* the credentials it held before the call and the same transaction.
C20_InlineCredentialsNotKept ==
    (pc = "returned" /\ client[1].authMode = AUTH_MODE_INLINE) =>
        /\ sreq.Credentials = reqBefore.Credentials
        /\ sreq.Transaction = reqBefore.Transaction

\* ------------------------------------------------------------------------
\* Properties of concurrent Send calls
\* ------------------------------------------------------------------------

\* the credentials a body sent by the Client c is meant to carry
OwnCredentials(c) ==
    IF c.authMode = AUTH_MODE_INLINE
    THEN << credentials(c.user, c.password) >>
    ELSE <<>>

\* C21: when two Send calls on the same Request interleave, each outgoing
\* body carries exactly the credentials of the Client that issued it, and no
\* call reads a value the other call wrote.
C21_ConcurrentSendsIndependent ==
    \A p \in Calls :
        (cpc[p] = "marshalled" /\ cbody[p] # <<>>) =>
            /\ cbody[p][1].credentials = OwnCredentials(cclient[p])
            /\ cread[p] \in {0, p}

\* ------------------------------------------------------------------------
\* Properties of the ClientBuilder and the Client
\* ------------------------------------------------------------------------

\* a configuration Build() must reject
BadConfiguration(b) ==
    \/ b.url = ""
    \/ b.authMode \notin {AUTH_MODE_NONE, AUTH_MODE_INLINE, AUTH_MODE_HTTP}
    \/ (b.authMode # AUTH_MODE_NONE /\ (b.user = "" \/ b.password = ""))

\* C22: ClientBuilder.Build() returns an error and no Client exactly when the
\* URL is empty, the auth mode is not NONE/INLINE/HTTP, or the auth mode is
\* not NONE and the user or the password is empty; otherwise it returns a
\* Client holding the builder's URL, auth mode, user and password.
C22_BuildChecksConfiguration ==
    cop.name = "Build" =>
        LET b == Target(cop.target) IN
            /\ BadConfiguration(b) => (cret.client = <<>> /\ cret.err # <<>>)
            /\ ~BadConfiguration(b) =>
                   /\ cret.err = <<>>
                   /\ cret.client # <<>>
                   /\ cret.client[1].url = b.url
                   /\ cret.client[1].authMode = b.authMode
                   /\ cret.client[1].user = b.user
                   /\ cret.client[1].password = b.password

C22_Witness ==
    /\ cop = [name |-> "Build", target |-> 0]
    /\ cb.url # ""
    /\ cb.authMode = AUTH_MODE_HTTP
    /\ cb.user # ""
    /\ cb.password = ""
    /\ cret.client = <<>>
    /\ cret.err # <<>>

\* the conditions Build() checked hold of the Client
ValidClient(c) ==
    /\ c.url # ""
    /\ c.authMode # AUTH_MODE_NONE => (c.user # "" /\ c.password # "")

\* C23: no operation callable on a built Client changes its URL, auth mode,
\* user or password, so every built Client keeps satisfying the conditions
\* Build() checked.
C23_ClientImmutable ==
    [][\A i \in 1..Len(clis) : clis'[i] = clis[i] /\ ValidClient(clis'[i])]_vars

\* a call on the ClientBuilder itself, a Send call, or the end of a Send call
BuilderOrSendStep ==
    \/ (nccalls' = nccalls + 1 /\ cop'.target = 0)
    \/ nsends' = nsends + 1
    \/ (pc = "posted" /\ pc' = "returned")

\* C24: Send calls on a built Client, whatever their outcome, and later
\* WithURL/WithInlineAuth/WithHTTPAuth/Build calls on the ClientBuilder that
\* produced it leave the Client's URL, auth mode, user and password unchanged.
C24_ClientKeptByBuilderAndSend ==
    [][BuilderOrSendStep => \A i \in 1..Len(clis) : clis'[i] = clis[i]]_vars

C24_Witness ==
    /\ Len(clis) = 1
    /\ pc = "returned"
    /\ client = << clis[1] >>
    /\ cop = [name |-> "WithURL", target |-> 0]
    /\ cb.url # clis[1].url

\* ------------------------------------------------------------------------
\* Properties of a returned Request while its builder goes on
\* ------------------------------------------------------------------------

\* an item as a reader of the Request sees it: its ValuesBatch read through
\* the slice header the item holds
DerefItem(item) ==
    [item EXCEPT !.ValuesBatch =
        IF item.ValuesBatch = <<>> THEN <<>>
        ELSE SubSeq(batches[item.ValuesBatch[1].array], 1, item.ValuesBatch[1].len)]

\* the items of a returned Request as a reader sees them
Deref(R) ==
    [i \in 1..R.req.Transaction.len |->
        DerefItem(arrays[R.req.Transaction.array][i])]

\* C25: no later call on the RequestBuilder changes the number, order or
\* contents of the items of a Request that Build() already returned.
C25_ReturnedRequestKept ==
    [][\A k \in 1..Len(mrets) : Deref(mrets[k])' = Deref(mrets[k])]_vars

\* the builder has appended, in place, to the array a returned Request reads
C25_Witness ==
    /\ \E k \in 1..Len(mrets) :
           /\ mrb.list.Transaction.array = mrets[k].req.Transaction.array
           /\ mrb.list.Transaction.len > mrets[k].req.Transaction.len
    /\ mrb.err = ""

\* ------------------------------------------------------------------------
\* Properties of the HTTP exchange of a Send call
\* ------------------------------------------------------------------------

\* C27: a Send call issues at most one HTTP POST, exactly one when
\* serialization and request construction succeed, and once the POST is
\* issued the call returns on its outcome (transport failure, any status, any
\* body) without issuing another.
C27_OnePostNoRetry ==
    /\ [](pc # "idle" =>
            nposts = IF Marshal(sreq).ok /\ ParseableURL(client[1].url)
                     THEN 1 ELSE 0)
    /\ [][pc = "posted" => (pc' = "returned" /\ nposts' = nposts)]_vars

C27_Witness ==
    /\ pc = "returned"
    /\ nposts = 1
    /\ resp = <<>>
    /\ out.err # <<>>

\* ------------------------------------------------------------------------
\* Properties of the builder's transaction list
\* ------------------------------------------------------------------------

\* the items of rb.list.Transaction as a reader sees them
ListView == Deref(Request(mrb.list))

\* the open item as a reader sees it: <<>> when there is none
TempView == IF mrb.temp = <<>> THEN <<>> ELSE << DerefItem(mrb.temp[1]) >>

\* C28: AddQuery/AddStatement with no latched error append the open item, as
\* configured at that moment, to the transaction list before opening the new
\* item; WithNoFail/WithValues/WithEncoder/WithDecoder leave every item
\* already in the list unchanged.
C28_AddAppendsWithKeepsList ==
    [][/\ (mop' \in {"AddQuery", "AddStatement"} /\ mrb.err = "") =>
              ListView' = ListView \o TempView
       /\ mop' \in {"WithNoFail", "WithValues", "WithEncoder", "WithDecoder"} =>
              ListView' = ListView]_vars

C28_Witness ==
    /\ mop = "AddQuery"
    /\ Len(ListView) = 2
    /\ ListView[1].Query # ""
    /\ ListView[2].NoFail
    /\ Len(ListView[2].ValuesBatch) = 2
    /\ mrb.temp # <<>>

\* ------------------------------------------------------------------------
\* Properties of the serialized items
\* ------------------------------------------------------------------------

\* C29: every item of every successfully built Request has exactly one of
\* query and statement in its serialized form, whatever text was passed to
\* AddQuery/AddStatement, the empty string included.
C29_QueryXorStatementSerialized ==
    Built =>
        \A i \in 1..Len(RetTransaction) :
            Cardinality(ItemKeys(RetTransaction[i]) \cap {"query", "statement"}) = 1

\* ------------------------------------------------------------------------
\* Properties of the credentials a Send call puts on the wire
\* ------------------------------------------------------------------------

\* C30: the body of every POST, also of a Request sent before through
\* another Client, carries credentials only if the sending Client is in
\* inline mode, and then that Client's; a Client in HTTP mode attaches its
\* user and password as Basic credentials and sends none in the body; a
\* Client without authentication sends neither.
C30_CredentialsFollowAuthMode ==
    post # <<>> =>
        /\ post[1].body.credentials = OwnCredentials(client[1])
        /\ post[1].basicAuth =
               IF client[1].authMode = AUTH_MODE_HTTP
               THEN << credentials(client[1].user, client[1].password) >>
               ELSE <<>>

\* ------------------------------------------------------------------------
\* Properties of repeated Build() calls
\* ------------------------------------------------------------------------

\* C31: two consecutive successful Build() calls on the same RequestBuilder,
\* with no builder call in between, return Requests with equal transactions,
\* each with one item per AddQuery/AddStatement call.
C31_BuildRepeatable ==
    [][(op.name = "Build" /\ ret.req # <<>> /\ op'.name = "Build") =>
          /\ ret'.req # <<>>
          /\ ret'.req[1].req.Transaction = ret.req[1].req.Transaction
          /\ Len(ret.req[1].req.Transaction) = Len(calls)
          /\ Len(ret'.req[1].req.Transaction) = Len(calls')]_vars

====
